---- MODULE Spec2Model ----
(***************************************************************************)
(* The atom store of jotai-clone (createAtom / cloneAtom, listed in        *)
(* README.md) as a state machine.                                          *)
(*                                                                         *)
(* JavaScript runs one job at a time.  A job is either a call made by a    *)
(* consumer (set, subscribe, unsubscribe, createAtom, cloneAtom) or the    *)
(* continuation of a computeValue that was suspended at its await.  Each   *)
(* action below is one such job, run to completion.  A derivation may be   *)
(* asynchronous, so suspended runs resume in any order, or reject.         *)
(* The click handler of CounterButton (counter-button/index.tsx) is a      *)
(* consumer of the atom countAtom.                                         *)
(***************************************************************************)
EXTENDS Integers, Sequences, FiniteSets, TLC

\* ---------------------------------------------------------------- bounds
MaxVal == 1
MaxPending == 2
MaxHandles == 2
MaxCount == 2

\* `null as AtomType`, the placeholder of a derived atom; a number no
\* atom is ever given
NULL == -1000

Val == 0..MaxVal

\* ----------------------------------------------------------------- atoms
\* P and Q are created with a plain value, D with a derivation that reads
\* them through get, B is the atom cloneAtom returns, countAtom is the
\* atom of store/atoms.ts.
Primitives == {"P", "Q", "B", "countAtom"}
Derived == {"D"}
Atoms == Primitives \cup Derived
CloneSources == {"P", "D"}
Recorders == {"c1", "c2"}
\* a consumer callback that throws when it is called
Throwers == {"t1"}
Consumers == Recorders \cup Throwers

VARIABLES
    value,        \* value[a]: the closure variable `value` of atom a
    exists,       \* the atoms created so far
    subscribers,  \* subscribers[a]: the Set `subscribers` of a, in insertion order
    subscribed,   \* subscribed[d]: the Set `subscribed` of derived atom d
    pending,      \* the computeValue runs suspended at their await, oldest first
    live,         \* live[a][c]: unsubscribe functions returned for (a, c), not yet called
    fresh,        \* derived atoms that no set and no commit has assigned yet
    cloneOf,      \* the atom B was cloned from ("" before cloneAtom)
    last,         \* the job that produced this state
    notified      \* the callback invocations of that job, in order

vars == <<value, exists, subscribers, subscribed, pending, live, fresh,
          cloneOf, last, notified>>

\* typeof initialValue === 'function'
IsDerived(a) == a \in Derived

\* cloneAtom returning its argument: B is the atom it was cloned from
GetAliased(a) == IF a = "B" /\ cloneOf # "" THEN value[cloneOf] ELSE value[a]

\* a.get()
Get(a) == value[a]

\* ------------------------------------------------------------- callbacks
\* A consumer callback; its identity is its name.
Recorder(c) == [fn |-> "recorder", owner |-> c, currentValue |-> NULL]

\* A consumer callback that throws.
Thrower(c) == [fn |-> "thrower", owner |-> c, currentValue |-> NULL]

\* The callback a consumer passes to subscribe.
Consumer(c) == IF c \in Throwers THEN Thrower(c) ELSE Recorder(c)

\* The arrow function get passes to a.subscribe; it closes over the
\* variable currentValue of the get call that created it.
DepCallback(d, v) == [fn |-> "dep", owner |-> d, currentValue |-> v]

\* Set.prototype.has
Has(s, cb) == \E i \in DOMAIN s : s[i] = cb

\* subscribers kept in an array: push
SetAddAlways(s, cb) == Append(s, cb)

\* Set.prototype.add on an insertion-ordered Set
SetAdd(s, cb) == IF Has(s, cb) THEN s ELSE Append(s, cb)

\* an unsubscribe function that deletes nothing
SetDeleteNone(s, cb) == s

\* Set.prototype.delete
SetDelete(s, cb) == SelectSeq(s, LAMBDA e : e # cb)

\* ------------------------------------------------------------ derivation
\* The derivation D is created with:
\*   (get) => get(Q) === 0 ? get(P) + get(P) : 1
Reads(val) == IF val["Q"] = 0 THEN <<"Q", "P", "P">> ELSE <<"Q">>

initialValue(val) == IF val["Q"] = 0 THEN val["P"] + val["P"] ELSE 1

\* get without the test of the tracking set
getAgain(d, a, st) ==
    [st EXCEPT
        !.subscribed[d] = @ \cup {a},
        !.subscribers[a] = Append(@, DepCallback(d, st.value[a]))]

\* One call get(a) made by the derivation of d.  st is the store.
get(d, a, st) ==
    IF a \in st.subscribed[d]
    THEN st
    ELSE [st EXCEPT
            !.subscribed[d] = @ \cup {a},
            !.subscribers[a] = Append(@, DepCallback(d, st.value[a]))]

RECURSIVE Track(_, _, _)
Track(d, reads, st) ==
    IF reads = <<>> THEN st
    ELSE Track(d, Tail(reads), get(d, Head(reads), st))

\* ---------------------------------------------------------- computeValue
\* a run whose derivation gives back the value the atom holds
computeValueAwaitEcho(d, cause, st) ==
    LET t == Track(d, Reads(st.value), st)
    IN  [t EXCEPT !.pending =
            Append(@, [atom |-> d, result |-> st.value[d], cause |-> cause])]

\* a run that first drops the dependencies tracked so far
computeValueAwaitPruned(d, cause, st) ==
    LET cut == [st EXCEPT
                  !.subscribed[d] = {},
                  !.subscribers = [a \in Atoms |->
                      SelectSeq(st.subscribers[a],
                                LAMBDA e : ~(e.fn = "dep" /\ e.owner = d))]]
        t == Track(d, Reads(st.value), cut)
    IN  [t EXCEPT !.pending =
            Append(@, [atom |-> d, result |-> initialValue(st.value),
                       cause |-> cause])]

\* computeValue of a derived atom up to its await: the derivation is
\* called, reads its dependencies, and the run is suspended.
\* cause names the caller: "createAtom", "set" or "get" (the callback
\* that get subscribed).
computeValueAwait(d, cause, st) ==
    LET t == Track(d, Reads(st.value), st)
    IN  [t EXCEPT !.pending =
            Append(@, [atom |-> d, result |-> initialValue(st.value),
                       cause |-> cause])]

\* value = null, without value = newValue
AssignReset(newValue) == NULL

\* value = null; value = newValue
Assign(newValue) == newValue

\* callbacks called with the new value between the reset and the assignment
InvocationTorn(a, e, val) ==
    [atom |-> a, cb |-> e.owner, fn |-> e.fn, arg |-> val[a], seen |-> NULL]

\* What one callback(value) call is handed and what get() returns then.
Invocation(a, e, val) ==
    [atom |-> a, cb |-> e.owner, fn |-> e.fn, arg |-> val[a], seen |-> val[a]]

\* a dependency callback that never recomputes
SameValueAlways(cur, new) == TRUE

\* a dependency callback without the equality test
SameValueNever(cur, new) == FALSE

\* The dependency callback's test `currentValue === newValue`
SameValue(cur, new) == cur = new

\* a dependency callback without `currentValue = newValue`
callbackKeepsCurrent(a, i, st) ==
    LET e == st.subscribers[a][i]
        s1 == [st EXCEPT !.notified = Append(@, Invocation(a, e, st.value))]
    IN  IF e.fn = "recorder" THEN s1
        ELSE IF e.fn = "thrower" THEN [s1 EXCEPT !.thrown = TRUE]
        ELSE IF SameValue(e.currentValue, st.value[a]) THEN s1
        ELSE computeValueAwait(e.owner, "get", s1)

\* One callback(value) call of the forEach, on the i-th subscriber of a.
\* A dependency callback cannot throw: computeValue is an async function,
\* what it throws rejects the promise that `void` drops.
callback(a, i, st) ==
    LET e == st.subscribers[a][i]
        s1 == [st EXCEPT !.notified = Append(@, Invocation(a, e, st.value))]
    IN  IF e.fn = "recorder" THEN s1
        ELSE IF e.fn = "thrower" THEN [s1 EXCEPT !.thrown = TRUE]
        ELSE IF SameValue(e.currentValue, st.value[a]) THEN s1
        ELSE computeValueAwait(e.owner, "get",
                [s1 EXCEPT !.subscribers[a][i].currentValue = st.value[a]])

\* a notification pass that walks the subscribers last to first
RECURSIVE forEachDown(_, _, _)
forEachDown(a, j, st) ==
    IF j < 1 \/ st.thrown THEN st
    ELSE forEachDown(a, j - 1, callback(a, j, st))

forEachReverse(a, i, st) == forEachDown(a, Len(st.subscribers[a]), st)

\* subscribers.forEach, from the i-th subscriber of a on; a callback
\* that throws ends it (there is no try around callback(value)).
RECURSIVE forEach(_, _, _)
forEach(a, i, st) ==
    IF i > Len(st.subscribers[a]) \/ st.thrown THEN st
    ELSE forEach(a, i + 1, callback(a, i, st))

\* computeValue after newValue is known: assign and notify.
computeValueCommit(a, newValue, st) ==
    forEach(a, 1, [st EXCEPT !.value[a] = Assign(newValue), !.thrown = FALSE])

\* computeValue without the await: every atom commits the value it holds
computeValueSync(a, cause, st) == computeValueCommit(a, st.value[a], st)

\* computeValue as called by set and by createAtom.
computeValue(a, cause, st) ==
    IF IsDerived(a) THEN computeValueAwait(a, cause, st)
    ELSE computeValueCommit(a, st.value[a], st)

\* ----------------------------------------------------------------- store
Store ==
    [value |-> value, subscribers |-> subscribers, subscribed |-> subscribed,
     pending |-> pending, notified |-> <<>>, thrown |-> FALSE]

Install(st) ==
    /\ Len(st.pending) <= MaxPending
    /\ value' = st.value
    /\ subscribers' = st.subscribers
    /\ subscribed' = st.subscribed
    /\ pending' = st.pending
    /\ notified' = st.notified

Job(op, a, arg, cb) ==
    [op |-> op, atom |-> a, arg |-> arg, cb |-> cb, cause |-> "",
     repeat |-> FALSE, started |-> 0]

Init ==
    /\ value \in {v \in [Atoms -> Val \cup {NULL}] :
                    /\ v["P"] \in Val /\ v["Q"] \in Val
                    /\ v["D"] = NULL /\ v["B"] = NULL
                    /\ v["countAtom"] = NULL}
    /\ exists = {"P", "Q"}
    /\ subscribers = [a \in Atoms |-> <<>>]
    /\ subscribed = [d \in Derived |-> {}]
    /\ pending = <<>>
    /\ live = [a \in Atoms |-> [c \in Consumers |-> 0]]
    /\ fresh = {}
    /\ cloneOf = ""
    /\ last = Job("init", "", NULL, "")
    /\ notified = <<>>

\* createAtom without its call of computeValue
createAtomLazy(d) ==
    /\ d \in Derived \ exists
    /\ exists' = exists \cup {d}
    /\ fresh' = fresh \cup {d}
    /\ Install([Store EXCEPT !.value[d] = NULL])
    /\ last' = Job("createAtom", d, NULL, "")
    /\ UNCHANGED <<live, cloneOf>>

\* createAtom(derivation)
createAtom(d) ==
    /\ d \in Derived \ exists
    /\ exists' = exists \cup {d}
    /\ fresh' = fresh \cup {d}
    /\ Install(computeValue(d, "createAtom", [Store EXCEPT !.value[d] = NULL]))
    /\ last' = Job("createAtom", d, NULL, "")
    /\ UNCHANGED <<live, cloneOf>>

\* what cloneAtom hands to createAtom: atom.get()
CloneSeed(src) == Get(src)

\* B = cloneAtom(src)
cloneAtom(src) ==
    /\ src \in CloneSources \cap exists
    /\ "B" \notin exists
    /\ exists' = exists \cup {"B"}
    /\ cloneOf' = src
    /\ Install(computeValue("B", "createAtom", [Store EXCEPT !.value["B"] = CloneSeed(src)]))
    /\ last' = Job("cloneAtom", "B", CloneSeed(src), src)
    /\ UNCHANGED <<live, fresh>>

\* set that returns early when the value is unchanged
setIfChanged(a, x) ==
    /\ a \in exists
    /\ IF x = value[a]
       THEN Install(Store)
       ELSE Install(computeValue(a, "set", [Store EXCEPT !.value[a] = x]))
    /\ fresh' = fresh \ {a}
    /\ last' = [Job("set", a, x, "") EXCEPT
                  !.repeat = (last.op = "set" /\ last.atom = a /\ last.arg = x),
                  !.started = Len(pending') - Len(pending)]
    /\ UNCHANGED <<exists, live, cloneOf>>

\* a.set(x)
set(a, x) ==
    /\ a \in exists
    /\ Install(computeValue(a, "set", [Store EXCEPT !.value[a] = x]))
    /\ fresh' = fresh \ {a}
    /\ last' = [Job("set", a, x, "") EXCEPT
                  !.repeat = (last.op = "set" /\ last.atom = a /\ last.arg = x),
                  !.started = Len(pending') - Len(pending)]
    /\ UNCHANGED <<exists, live, cloneOf>>

\* a.subscribe(Consumer(c)); the returned function is kept by the caller
subscribe(a, c) ==
    /\ a \in exists
    /\ c \in Consumers
    /\ live[a][c] < MaxHandles
    /\ subscribers' = [subscribers EXCEPT ![a] = SetAdd(@, Consumer(c))]
    /\ live' = [live EXCEPT ![a][c] = @ + 1]
    /\ notified' = <<>>
    /\ last' = Job("subscribe", a, NULL, c)
    /\ UNCHANGED <<value, exists, subscribed, pending, fresh, cloneOf>>

\* A call of a function that a.subscribe(Consumer(c)) returned.  The
\* caller calls each returned function at most once.
unsubscribe(a, c) ==
    /\ a \in exists
    /\ c \in Consumers
    /\ live[a][c] > 0
    /\ live' = [live EXCEPT ![a][c] = @ - 1]
    /\ subscribers' = [subscribers EXCEPT ![a] = SetDelete(@, Consumer(c))]
    /\ notified' = <<>>
    /\ last' = Job("unsubscribe", a, NULL, c)
    /\ UNCHANGED <<value, exists, subscribed, pending, fresh, cloneOf>>

Without(s, i) == SubSeq(s, 1, i - 1) \o SubSeq(s, i + 1, Len(s))

\* a commit that cancels the runs started before it
resolveFenced(i) ==
    /\ i \in DOMAIN pending
    /\ LET run == pending[i]
       IN  /\ Install(computeValueCommit(run.atom, run.result,
                        [Store EXCEPT !.pending =
                            SubSeq(pending, i + 1, Len(pending))]))
           /\ fresh' = fresh \ {run.atom}
           /\ last' = [Job("resolve", run.atom, run.result, "") EXCEPT
                         !.cause = run.cause]
    /\ UNCHANGED <<exists, live, cloneOf>>

\* The derivation of run i fulfils: computeValue resumes after its await.
resolve(i) ==
    /\ i \in DOMAIN pending
    /\ LET run == pending[i]
       IN  /\ Install(computeValueCommit(run.atom, run.result,
                        [Store EXCEPT !.pending = Without(pending, i)]))
           /\ fresh' = fresh \ {run.atom}
           /\ last' = [Job("resolve", run.atom, run.result, "") EXCEPT
                         !.cause = run.cause]
    /\ UNCHANGED <<exists, live, cloneOf>>

\* The derivation of run i throws or rejects: computeValue never resumes.
reject(i) ==
    /\ i \in DOMAIN pending
    /\ pending' = Without(pending, i)
    /\ notified' = <<>>
    /\ last' = [Job("reject", pending[i].atom, NULL, "") EXCEPT
                  !.cause = pending[i].cause]
    /\ UNCHANGED <<value, exists, subscribers, subscribed, live, fresh, cloneOf>>

\* The core: the consumers create D, write P, Q and D, and listen to D;
\* a callback is subscribed again only after it was unsubscribed.
Next ==
    \/ \E d \in Derived : createAtom(d)
    \/ \E a \in Atoms, x \in Val : set(a, x)
    \/ \E d \in Derived, c \in Recorders : live[d][c] = 0 /\ subscribe(d, c)
    \/ \E d \in Derived, c \in Recorders : unsubscribe(d, c)
    \/ \E i \in 1..MaxPending : resolve(i)
    \/ \E i \in 1..MaxPending : reject(i)

Spec == Init /\ [][Next]_vars

\* Consumers that clone P or D into B, then write the source and the
\* clone and listen to both with c1.
NextClone ==
    \/ \E d \in Derived : createAtom(d)
    \/ \E src \in CloneSources : cloneAtom(src)
    \/ \E a \in {cloneOf, "B"} \cap exists, x \in Val : set(a, x)
    \/ \E a \in {cloneOf, "B"} \cap exists : live[a]["c1"] = 0 /\ subscribe(a, "c1")
    \/ \E a \in {cloneOf, "B"} \cap exists : unsubscribe(a, "c1")
    \/ \E i \in 1..MaxPending : resolve(i)
    \/ \E i \in 1..MaxPending : reject(i)

\* Q keeps the value it was created with, 0.
InitClone == Init /\ value["Q"] = 0

SpecClone == InitClone /\ [][NextClone]_vars

\* Consumers of the primitive atom P alone, which subscribe a callback
\* again while they still hold an unsubscribe function for it.
NextSubscribe ==
    \/ \E x \in Val : set("P", x)
    \/ \E c \in Recorders : subscribe("P", c)
    \/ \E c \in Recorders : unsubscribe("P", c)

SpecSubscribe == Init /\ [][NextSubscribe]_vars

\* Consumers of P alone, one of which passes a callback that throws.
NextThrow ==
    \/ \E x \in Val : set("P", x)
    \/ \E c \in Consumers : live["P"][c] = 0 /\ subscribe("P", c)
    \/ \E c \in Consumers : unsubscribe("P", c)

SpecThrow == Init /\ [][NextThrow]_vars

\* Derivations that all fulfil, in any order; the consumers write the
\* dependencies of D only.
NextOverlap ==
    \/ \E d \in Derived : createAtom(d)
    \/ \E a \in {"P", "Q"}, x \in Val : set(a, x)
    \/ \E d \in Derived : live[d]["c1"] = 0 /\ subscribe(d, "c1")
    \/ \E d \in Derived : unsubscribe(d, "c1")
    \/ \E i \in 1..MaxPending : resolve(i)

SpecOverlap == Init /\ [][NextOverlap]_vars

\* Derivations that all fulfil, in the order in which they were started.
NextInOrder ==
    \/ \E d \in Derived : createAtom(d)
    \/ \E a \in {"P", "Q"}, x \in Val : set(a, x)
    \/ \E d \in Derived : live[d]["c1"] = 0 /\ subscribe(d, "c1")
    \/ \E d \in Derived : unsubscribe(d, "c1")
    \/ resolve(1)

SpecInOrder == Init /\ [][NextInOrder]_vars

\* ---------------------------------------------------------- CounterButton
\* The values of the object ACTIONS, and a prop that is none of them.
Actions == {"increment", "decrement", "reset", "random"}
Props == Actions \cup {"invalid"}

\* Math.floor(Math.random() * 100) is one of 0 .. RandomMax - 1
RandomMax == 100

\* a handler without its final else
handleActionSilent(action, count, random) ==
    IF action = "increment" THEN [calls |-> <<count + 1>>, error |-> ""]
    ELSE IF action = "decrement" THEN [calls |-> <<count - 1>>, error |-> ""]
    ELSE IF action = "reset" THEN [calls |-> <<0>>, error |-> ""]
    ELSE IF action = "random" THEN [calls |-> <<random>>, error |-> ""]
    ELSE [calls |-> <<>>, error |-> ""]

\* handleAction: the calls of setCount it makes, in order, and the message
\* of the error it throws ("" when it returns).
handleAction(action, count, random) ==
    IF action = "increment" THEN [calls |-> <<count + 1>>, error |-> ""]
    ELSE IF action = "decrement" THEN [calls |-> <<count - 1>>, error |-> ""]
    ELSE IF action = "reset" THEN [calls |-> <<0>>, error |-> ""]
    ELSE IF action = "random" THEN [calls |-> <<random>>, error |-> ""]
    ELSE [calls |-> <<>>, error |-> "Invalid action"]

\* setCount is countAtom.set: the calls, one after the other
RECURSIVE setCount(_, _)
setCount(calls, st) ==
    IF calls = <<>> THEN st
    ELSE setCount(Tail(calls),
            computeValue("countAtom", "set",
                [st EXCEPT !.value["countAtom"] = Head(calls)]))

\* A click on a CounterButton rendered with the prop action.  count is
\* the snapshot useSyncExternalStore took with countAtom.get at the last
\* render, and every write is followed by a render.
onClick(action, random) ==
    /\ "countAtom" \in exists
    /\ LET out == handleAction(action, Get("countAtom"), random)
       IN  /\ \A k \in DOMAIN out.calls :
                 out.calls[k] \in (0 - MaxCount)..(RandomMax - 1 + MaxCount)
           /\ Install(setCount(out.calls, Store))
           /\ last' = [op |-> "handleAction", atom |-> "countAtom",
                       arg |-> IF out.calls = <<>> THEN NULL
                               ELSE out.calls[Len(out.calls)],
                       cb |-> "", cause |-> "", repeat |-> FALSE,
                       started |-> 0,
                       action |-> action, calls |-> out.calls,
                       error |-> out.error]
    /\ UNCHANGED <<exists, live, fresh, cloneOf>>

\* store/atoms.ts: countAtom = createAtom<number>(0)
InitCounter ==
    /\ value = [a \in Atoms |-> IF a = "countAtom" THEN 0 ELSE NULL]
    /\ exists = {"countAtom"}
    /\ subscribers = [a \in Atoms |-> <<>>]
    /\ subscribed = [d \in Derived |-> {}]
    /\ pending = <<>>
    /\ live = [a \in Atoms |-> [c \in Consumers |-> 0]]
    /\ fresh = {}
    /\ cloneOf = ""
    /\ last = Job("init", "", NULL, "")
    /\ notified = <<>>

\* The counter page: buttons are clicked, components that show the count
\* mount and unmount.
NextCounter ==
    \/ \E action \in Props :
          \E random \in IF action = "random" THEN 0..(RandomMax - 1) ELSE {0} :
              onClick(action, random)
    \/ \E c \in Recorders : live["countAtom"][c] = 0 /\ subscribe("countAtom", c)
    \/ \E c \in Recorders : unsubscribe("countAtom", c)

SpecCounter == InitCounter /\ [][NextCounter]_vars

\* ============================================================ properties
\* The job that produced this state ran a notification pass on last.atom.
Passed ==
    \/ last.op = "resolve"
    \/ last.op = "set" /\ ~IsDerived(last.atom)

\* How often the last job invoked consumer callback c of atom a.
Count(a, c) ==
    Cardinality({i \in DOMAIN notified :
                    /\ notified[i].atom = a
                    /\ notified[i].cb = c
                    /\ notified[i].fn = "recorder"})

\* Who was invoked with what, in order.
Calls(log) == [i \in DOMAIN log |-> <<log[i].cb, log[i].arg>>]

\* Every subscriber of a, in insertion order, each called once with x.
EachOnce(a, x) ==
    [i \in DOMAIN subscribers[a] |-> <<subscribers[a][i].owner, x>>]

\* The value the dependency callback of d in a's subscribers holds.
Observed(d, a) ==
    LET i == CHOOSE j \in DOMAIN subscribers[a] :
                subscribers[a][j].fn = "dep" /\ subscribers[a][j].owner = d
    IN  subscribers[a][i].currentValue

\* ---- C1
\* C1 (write visibility): in the state a.set(x) leaves, before any other
\* job runs, a.get() is x; for primitive and for derived atoms.
C1_WriteVisibility == last.op = "set" => Get(last.atom) = last.arg

\* set(x) on a derived atom whose derivation is still suspended
C1_Witness ==
    /\ last.op = "set"
    /\ IsDerived(last.atom)
    /\ Len(pending) = 2
    /\ Get(last.atom) = last.arg

\* ---- C2
C2_Delivered ==
    (last.op = "set" /\ ~IsDerived(last.atom))
        => Calls(notified) = EachOnce(last.atom, last.arg)

C2_Order ==
    [][\A c \in Recorders :
          (/\ last'.op = "subscribe"
           /\ last'.cb = c
           /\ ~Has(subscribers[last'.atom], Recorder(c)))
          => subscribers'[last'.atom]
                = Append(subscribers[last'.atom], Recorder(c))]_vars

\* C2 (subscriber delivery): a set(x) on a primitive atom invokes every
\* callback subscribed before it exactly once, with x, and in the order
\* in which the callbacks were subscribed (a newly subscribed callback
\* comes after all those already subscribed).
C2_SubscriberDelivery == []C2_Delivered /\ C2_Order

\* two callbacks, c2 subscribed before c1, both called by one write
C2_Witness ==
    /\ last.op = "set"
    /\ last.atom = "P"
    /\ Len(subscribers["P"]) = 2
    /\ subscribers["P"][1] = Recorder("c2")
    /\ Calls(notified) = <<(<<"c2", last.arg>>), (<<"c1", last.arg>>)>>

\* ---- C3
C3_Removed ==
    [][last'.op = "unsubscribe" =>
          LET a == last'.atom
              cb == Recorder(last'.cb)
          IN  /\ ~Has(subscribers'[a], cb)
              /\ subscribers' = [subscribers EXCEPT
                                   ![a] = SelectSeq(@, LAMBDA e : e # cb)]]_vars

C3_Silent ==
    [][\A a \in Atoms, c \in Recorders :
          (/\ ~Has(subscribers[a], Recorder(c))
           /\ ~(last'.op = "subscribe" /\ last'.atom = a /\ last'.cb = c))
          => /\ ~Has(subscribers'[a], Recorder(c))
             /\ \A i \in DOMAIN notified' :
                   ~(notified'[i].atom = a /\ notified'[i].cb = c)]_vars

C3_OthersNotified ==
    Passed => \A i \in DOMAIN subscribers[last.atom] :
                  \E j \in DOMAIN notified :
                      /\ notified[j].atom = last.atom
                      /\ notified[j].cb = subscribers[last.atom][i].owner
                      /\ notified[j].arg = Get(last.atom)

\* C3 (unsubscribe correctness): a call of an unsubscribe function
\* removes its callback and no other; a callback that is not subscribed is
\* invoked by no later write and no later commit (also of a run that was
\* suspended when it was removed) until it is subscribed again; every
\* notification pass reaches every callback that is still subscribed.
C3_UnsubscribeCorrectness == C3_Removed /\ C3_Silent /\ []C3_OthersNotified

\* c1 has just been removed from D while a run of D is suspended and c2
\* is still subscribed
C3_Witness ==
    /\ last.op = "unsubscribe"
    /\ last.atom = "D"
    /\ last.cb = "c1"
    /\ Has(subscribers["D"], Recorder("c2"))
    /\ Len(pending) > 0

\* ---- C4
C4_Starts ==
    [][\A a \in {"P", "Q"} :
          (/\ last'.op = "set"
           /\ last'.atom = a
           /\ "D" \in exists
           /\ a \in subscribed["D"]
           /\ last'.arg # Get(a))
          => /\ Len(pending') = Len(pending) + 1
             /\ pending'[Len(pending')] =
                  [atom |-> "D",
                   result |-> initialValue([value EXCEPT ![a] = last'.arg]),
                   cause |-> "get"]]_vars

C4_Commits ==
    last.op = "resolve"
        => /\ Get(last.atom) = last.arg
           /\ Calls(notified) = EachOnce(last.atom, last.arg)

\* C4 (dependency propagation): when D has read primitive atom a through
\* get, a.set(x) with x different from a's value starts a run of D's
\* derivation computed from x; when a run resolves, D.get() is its result
\* and every subscriber of D has been called with that result.
C4_DependencyPropagation == C4_Starts /\ []C4_Commits

\* a run started by the dependency callback has committed and both
\* subscribers of D were called with its result
C4_Witness ==
    /\ last.op = "resolve"
    /\ last.atom = "D"
    /\ last.cause = "get"
    /\ Get("D") = last.arg
    /\ Len(notified) = 2

\* ---- C5
\* C5 (equality gate): when D has read primitive atom a through get, a
\* write a.set(x) with x equal to the value D's dependency callback last
\* observed starts no run of D, leaves D's value and calls no subscriber
\* of D.
C5_EqualityGate ==
    [][\A a \in {"P", "Q"} :
          (/\ last'.op = "set"
           /\ last'.atom = a
           /\ "D" \in exists
           /\ a \in subscribed["D"]
           /\ last'.arg = Observed("D", a))
          => /\ pending' = pending
             /\ value'["D"] = value["D"]
             /\ \A i \in DOMAIN notified' : notified'[i].atom # "D"]_vars

\* the second of two equal writes to P: D's callback was called and
\* started nothing
C5_Witness ==
    /\ last.op = "set"
    /\ last.atom = "P"
    /\ last.repeat
    /\ "P" \in subscribed["D"]
    /\ \E i \in DOMAIN notified : notified[i].fn = "dep"
    /\ pending = <<>>

\* ---- C6
\* C6 (primitive atoms notify on every write): of two consecutive calls
\* set(x) on a primitive atom with the same x, each invokes every
\* subscribed consumer callback once with x.
C6_NotifyOnEveryWrite ==
    [][(/\ last.op = "set"
        /\ ~IsDerived(last.atom)
        /\ last'.op = "set"
        /\ last'.atom = last.atom
        /\ last'.arg = last.arg)
       => \A c \in Recorders :
             Has(subscribers[last.atom], Recorder(c))
             => /\ Count(last.atom, c) = 1
                /\ Count(last.atom, c)' = 1
                /\ \A i \in DOMAIN notified' : notified'[i].arg = last.arg]_vars

\* the second of two equal writes, delivered to c1
C6_Witness ==
    /\ last.op = "set"
    /\ last.atom = "P"
    /\ last.repeat
    /\ Has(subscribers["P"], Recorder("c1"))
    /\ Count("P", "c1") = 1

\* ---- C7
C7_Seed == last.op = "cloneAtom" => Get("B") = Get(cloneOf)

C7_Independent ==
    [][("B" \in exists /\ last'.op = "set") =>
          /\ last'.atom = cloneOf
                => /\ Get("B")' = Get("B")
                   /\ \A i \in DOMAIN notified' : notified'[i].atom # "B"
          /\ last'.atom = "B"
                => /\ Get(cloneOf)' = Get(cloneOf)
                   /\ \A i \in DOMAIN notified' : notified'[i].atom # cloneOf]_vars

\* C7 (clone independence): right after B = cloneAtom(A), B.get() equals
\* A.get(); afterwards an A.set neither changes B.get() nor calls a
\* subscriber of B, and a B.set neither changes A.get() nor calls a
\* subscriber of A.
C7_CloneIndependence == []C7_Seed /\ C7_Independent

\* the source was written after the clone: the values differ, and B's
\* subscriber was not called
C7_Witness ==
    /\ last.op = "set"
    /\ last.atom = cloneOf
    /\ Has(subscribers["B"], Recorder("c1"))
    /\ Get("B") # Get(cloneOf)
    /\ Count("B", "c1") = 0

\* ---- C8
\* C8 as claimed: every unsubscribe function that was returned and not yet
\* called stands for a registration of its own, so a write invokes the
\* callback once per such function.
C8_IndependentRegistrations ==
    (last.op = "set" /\ ~IsDerived(last.atom))
        => \A c \in Recorders : Count(last.atom, c) = live[last.atom][c]

\* C8 (amended): subscribing the same callback again registers nothing
\* new: the callback is in the subscribers once, a write invokes it once,
\* and a call of any one of the returned unsubscribe functions removes it,
\* so that later writes do not invoke it.
C8_SingleRegistration ==
    /\ \A a \in Atoms, c \in Recorders :
          Cardinality({i \in DOMAIN subscribers[a] :
                          subscribers[a][i] = Recorder(c)}) <= 1
    /\ (last.op = "set" /\ ~IsDerived(last.atom))
          => \A c \in Recorders :
                Count(last.atom, c) =
                    IF Has(subscribers[last.atom], Recorder(c)) THEN 1 ELSE 0
    /\ last.op = "unsubscribe"
          => ~Has(subscribers[last.atom], Recorder(last.cb))

\* c1 was subscribed twice and one unsubscribe function was called: the
\* write did not invoke c1
C8_Witness ==
    /\ last.op = "set"
    /\ last.atom = "P"
    /\ live["P"]["c1"] = 1
    /\ ~Has(subscribers["P"], Recorder("c1"))
    /\ Count("P", "c1") = 0

\* ---- C9
\* The runs of d started by createAtom that are still suspended.
FirstPass(d) ==
    {i \in DOMAIN pending :
        pending[i].atom = d /\ pending[i].cause = "createAtom"}

\* C9 as claimed: as long as the pass started at construction has not
\* committed, get() returns the placeholder.
C9_PlaceholderUntilFirstCommit ==
    \A d \in Derived : FirstPass(d) # {} => Get(d) = NULL

\* C9 (amended): createAtom(derivation) starts exactly one pass; get()
\* returns the placeholder until the first set on the atom or the first
\* commit of any of its passes; when the pass started at construction
\* commits, get() returns its result.
C9_DerivedConstruction ==
    /\ last.op = "createAtom"
          => /\ Cardinality(FirstPass(last.atom)) = 1
             /\ Cardinality({i \in DOMAIN pending :
                                pending[i].atom = last.atom}) = 1
    /\ \A d \in Derived : Cardinality(FirstPass(d)) <= 1
    /\ \A d \in fresh : Get(d) = NULL
    /\ (last.op = "resolve" /\ last.cause = "createAtom")
          => Get(last.atom) = last.arg

\* the pass started at construction has committed its result
C9_Witness ==
    /\ last.op = "resolve"
    /\ last.cause = "createAtom"
    /\ Get("D") = last.arg
    /\ Get("D") # NULL

\* ---- C10
\* C10 (no torn notification): every callback invocation is handed the
\* value get() returns at that moment, and that value is the one the pass
\* commits, never the placeholder of the reset.
C10_NoTornNotification ==
    \A i \in DOMAIN notified :
        /\ notified[i].arg = notified[i].seen
        /\ notified[i].seen = last.arg
        /\ notified[i].seen # NULL

\* a commit of D has called both of its subscribers
C10_Witness ==
    /\ last.op = "resolve"
    /\ Len(notified) = 2
    /\ \A i \in DOMAIN notified : notified[i].seen = Get("D")

\* ---- C11
\* C11 as claimed: for any atom, primitive or derived, the atom's own
\* subscribers have all been invoked with x by the time set(x) returns.
C11_SynchronousPass ==
    last.op = "set"
        => /\ Get(last.atom) = last.arg
           /\ Calls(notified) = EachOnce(last.atom, last.arg)

\* C11 (amended): set(x) assigns the value before it returns, for any
\* atom.  On a primitive atom the notification pass has run by the time
\* set returns.  On a derived atom set only starts a run of the derivation
\* and returns with none of the atom's subscribers invoked; they are
\* invoked when a run commits.
C11_WritePath ==
    last.op = "set"
        => /\ Get(last.atom) = last.arg
           /\ IF IsDerived(last.atom)
              THEN /\ notified = <<>>
                   /\ last.started = 1
                   /\ pending # <<>>
                   /\ pending[Len(pending)].atom = last.atom
                   /\ pending[Len(pending)].cause = "set"
              ELSE Calls(notified) = EachOnce(last.atom, last.arg)

\* D.set(x) has returned with both subscribers of D not invoked
C11_Witness ==
    /\ last.op = "set"
    /\ last.atom = "D"
    /\ Len(subscribers["D"]) = 2
    /\ notified = <<>>
    /\ pending[Len(pending)].cause = "set"

\* ---- C12
\* C12 (suspension window): while a run of a derived atom's derivation is
\* suspended, the first run or a later one, get() on that atom returns
\* the placeholder.
C12_SuspensionWindow ==
    \A i \in DOMAIN pending : Get(pending[i].atom) = NULL

\* ---- C13
C13_Placeholder == last.op = "reject" => Get(last.atom) = NULL

C13_Quiet ==
    [][last'.op = "reject" =>
          /\ notified' = <<>>
          /\ subscribers' = subscribers]_vars

\* C13 (derivation failure): when a run of a derived atom's derivation
\* rejects, the atom's value is the placeholder, no subscriber is called
\* for that run, and the subscribers are unchanged.
C13_DerivationFailure == []C13_Placeholder /\ C13_Quiet

\* ---- C14
\* A run that starts leaves the runs suspended before it suspended.
C14_NoCancel ==
    [][Len(pending') > Len(pending)
          => SubSeq(pending', 1, Len(pending)) = pending]_vars

\* A commit is the commit of one suspended run, whichever it is: the
\* atom's value is that run's result, every subscriber is called with it,
\* and the other runs stay suspended.
C14_EachCommits ==
    [][last'.op = "resolve" =>
          \E i \in DOMAIN pending :
              /\ pending' = Without(pending, i)
              /\ last'.atom = pending[i].atom
              /\ value'[last'.atom] = pending[i].result
              /\ Calls(notified') = EachOnce(last'.atom, pending[i].result)]_vars

\* C14 (overlapping recomputations): a recomputation that starts while
\* an earlier one of the same atom is suspended cancels nothing; each of
\* the two, when it resolves, commits its own result and calls the
\* subscribers with it, so the value after both is the result of the one
\* that resolved last, also when that one was started first.
C14_LastToCompleteWins == C14_NoCancel /\ C14_EachCommits

\* the construction run committed after a run started later: D holds the
\* result computed from the older dependency values
C14_Witness ==
    /\ last.op = "resolve"
    /\ last.cause = "createAtom"
    /\ pending = <<>>
    /\ Get("D") = last.arg
    /\ Get("D") # initialValue(value)
    /\ Calls(notified) = <<(<<"c1", last.arg>>)>>

\* ---- C15
\* The dependency callbacks of d among the subscribers of a.
DepCallbacks(d, a) ==
    {i \in DOMAIN subscribers[a] :
        subscribers[a][i].fn = "dep" /\ subscribers[a][i].owner = d}

\* C15 (at-most-once dependency subscription): in every reachable state
\* the subscribers of any atom a hold at most one dependency callback of
\* derived atom d: exactly one when d has read a, none otherwise.
C15_AtMostOnce ==
    \A d \in Derived, a \in Atoms :
        Cardinality(DepCallbacks(d, a)) = IF a \in subscribed[d] THEN 1 ELSE 0

\* a write to P has started a second run of a derivation that reads P
\* twice, and P still has one dependency callback of D
C15_Witness ==
    /\ last.op = "set"
    /\ last.atom = "P"
    /\ last.started = 1
    /\ Reads(value) = <<"Q", "P", "P">>
    /\ Len(pending) = 2
    /\ pending[1].cause = "get"
    /\ Cardinality(DepCallbacks("D", "P")) = 1

\* ---- C16
\* C16 (permanent dependency edges): once D has read atom a through get,
\* a stays tracked and D's dependency callback stays among a's
\* subscribers in every later state, and every a.set(x) with x different
\* from a's value starts a run of D, whether or not the derivation
\* currently reads a.
C16_PermanentEdges ==
    [][\A a \in subscribed["D"] :
          /\ a \in subscribed'["D"]
          /\ \E i \in DOMAIN subscribers'[a] :
                subscribers'[a][i].fn = "dep" /\ subscribers'[a][i].owner = "D"
          /\ (last'.op = "set" /\ last'.atom = a /\ last'.arg # Get(a))
                => /\ last'.started = 1
                   /\ pending'[Len(pending')].atom = "D"
                   /\ pending'[Len(pending')].cause = "get"]_vars

\* Q is not 0, so the derivation reads Q only; a write to P has started
\* a run of D all the same
C16_Witness ==
    /\ last.op = "set"
    /\ last.atom = "P"
    /\ last.started = 1
    /\ Reads(value) = <<"Q">>
    /\ pending[Len(pending)].cause = "get"
    /\ pending[Len(pending)].result = 1

\* ---- C17
\* C17 (subscriber failure isolation): in a notification pass every
\* subscriber registered after one that throws is still called with the
\* new value.
C17_FailureIsolation ==
    (last.op = "set" /\ ~IsDerived(last.atom))
        => \A i, j \in DOMAIN subscribers[last.atom] :
              (i < j /\ subscribers[last.atom][i].fn = "thrower")
              => \E k \in DOMAIN notified :
                    /\ notified[k].cb = subscribers[last.atom][j].owner
                    /\ notified[k].arg = last.arg

\* ---- C18
\* C18 (invalid action): a click with a prop that is none of the four
\* actions throws 'Invalid action' and calls countAtom.set not at all,
\* leaving its value and subscribers as they were and calling no
\* subscriber; a click with one of the four actions throws nothing and
\* calls countAtom.set exactly once, with count + 1, count - 1, 0 or a
\* number of 0 .. 99.
C18_InvalidAction ==
    [][last'.op = "handleAction" =>
          IF last'.action \in Actions
          THEN /\ last'.error = ""
               /\ Len(last'.calls) = 1
               /\ Get("countAtom")' = last'.calls[1]
               /\ Calls(notified') = EachOnce("countAtom", last'.calls[1])
               /\ last'.action = "increment"
                     => last'.calls[1] = Get("countAtom") + 1
               /\ last'.action = "decrement"
                     => last'.calls[1] = Get("countAtom") - 1
               /\ last'.action = "reset" => last'.calls[1] = 0
               /\ last'.action = "random"
                     => last'.calls[1] \in 0..(RandomMax - 1)
          ELSE /\ last'.error = "Invalid action"
               /\ last'.calls = <<>>
               /\ notified' = <<>>
               /\ UNCHANGED <<value, subscribers>>]_vars

\* an invalid click on a count of 5 with a subscriber: nothing written,
\* nobody called
C18_Witness ==
    /\ last.op = "handleAction"
    /\ last.action = "invalid"
    /\ last.error = "Invalid action"
    /\ Get("countAtom") = 5
    /\ Len(subscribers["countAtom"]) = 1
    /\ notified = <<>>

\* ---- C19
\* C19 (write to a derived atom is superseded): D.set(x) starts a run of
\* D's derivation, computed from the dependencies and not from x; when
\* that run commits, D.get() is the derivation's result and D's
\* subscribers are called with it; no subscriber of a derived atom is
\* ever called by a set, so never with x as such.
C19_WriteSuperseded ==
    /\ (last.op = "set" /\ IsDerived(last.atom))
          => pending[Len(pending)] =
                [atom |-> last.atom, result |-> initialValue(value),
                 cause |-> "set"]
    /\ (last.op = "resolve" /\ last.cause = "set")
          => /\ Get(last.atom) = last.arg
             /\ Calls(notified) = EachOnce(last.atom, last.arg)
    /\ \A i \in DOMAIN notified :
          IsDerived(notified[i].atom)
          => /\ last.op = "resolve"
             /\ notified[i].arg = last.arg
             /\ \E v \in [{"P", "Q"} -> Val] : last.arg = initialValue(v)

\* the run started by D.set has committed 2, which no D.set in this model
\* writes, and both subscribers of D were called with 2
C19_Witness ==
    /\ last.op = "resolve"
    /\ last.cause = "set"
    /\ last.arg \notin Val
    /\ Get("D") = last.arg
    /\ Calls(notified) = <<(<<"c1", last.arg>>), (<<"c2", last.arg>>)>>

\* ---- C20
\* C20 (quiescent consistency under in-order completion): when the runs
\* of D commit in the order in which they were started and none rejects,
\* then in every state in which D exists and no run is suspended,
\* D.get() is the derivation applied to the current values of P and Q.
C20_QuiescentConsistency ==
    ("D" \in exists /\ pending = <<>>) => Get("D") = initialValue(value)

\* two runs were started, by the construction and by a write to P, and
\* committed in that order; D holds P + P for the P written last
C20_Witness ==
    /\ last.op = "resolve"
    /\ last.cause = "get"
    /\ pending = <<>>
    /\ Reads(value) = <<"Q", "P", "P">>
    /\ Get("P") = 1
    /\ Get("D") = 2

====
